---- MODULE Spec2Model ----
(***************************************************************************)
(* A model of the pipeline execution engine of lingograph                  *)
(* (src/unnamed/part_000): the Chat (history + unique offset), the static  *)
(* step, and Parallel.Execute with its split / goroutines / WaitGroup /    *)
(* merge; the Store (src/store/store.go); and the sequential engine:       *)
(* the retrying Actor step, Chain, While and If.  Further specifications   *)
(* cover a Chat taken alone, Parallel over pipeline trees, branches that   *)
(* share the Store, read-only views, and the construction of Actors.       *)
(*                                                                         *)
(* A message is <<writer, n>>: the n-th message written by `writer`, where *)
(* writer 0 is the caller's top-level pipeline and writer i >= 1 is the    *)
(* pipeline of branch i of the Parallel step.  An error value is the index *)
(* of the branch whose pipeline returned it.                               *)
(***************************************************************************)
EXTENDS Integers, Sequences, FiniteSets, TLC

\* const maxHistoryLength = 1000 in the source; the model scales the
\* ceiling down so that truncation is reached within the bounds.
maxHistoryLength == 4

\* len(p.pipelines) of the Parallel step that is executed.
NBranches == 2
\* Static steps the caller runs on the top-level Chat.
MaxTopWrites == 4
\* Static steps one branch pipeline runs on its clone.
MaxBranchWrites == 3

\* Store objects that exist (NewStore calls).
NStores == 2
\* FreshVar calls.
MaxVars == 2

\* The largest retryLimit an Actor step is built with.
MaxRetryLimit == 3
\* The most messages one call of an Actor function returns.
MaxMsgs == 3
\* Iterations of a While loop that are followed.
MaxIter == 3

Branches == 1..NBranches
StoreRefs == 1..NStores

VARIABLES
    chat,       \* the top-level *chat: [history, offsetUnique]
    splitters,  \* split()'s result: <<>> before the Parallel step, then one clone per branch
    pc,         \* the caller: "idle" | "wait" (in wg.Wait) | "merge" | "panic"
    bpc,        \* goroutine fn(i): "none" | "run" | "done" | "failed"
    wg,         \* the WaitGroup counter
    errors,     \* the errors slice of parallel.Execute
    ret,        \* what the last parallel.Execute returned: "none" | "nil" | "err"
    mi, mk,     \* merge loop: branch index, messages of that branch already written
    nw,         \* nw[w]: number of messages writer w has written
    trimmed,    \* trimmed[i]: branch i's pipeline has run a step flagged trim
    pre,        \* history of the parent at the clone point
    merged,     \* merged[i]: the messages the merge loop passed to chat.write for branch i
    lw,         \* the last write: [chat, prev, msg], or NoWrite
    stores,     \* stores[s]: the sync.Map of Store s, a function from ids to values
    nextID,     \* the global nextID of package store
    handles,    \* the Vars FreshVar has returned: [id, type]
    shadow,     \* shadow[s]: for every id, the value last passed to Set on Store s
    lastGet,    \* the last Get: [store, var, res], or NoGet
    prog,       \* the Pipeline tree the caller executes on the Chat
    stk,        \* the call stack of Execute: frames [path, k, snap, outs, before]
    res,        \* the value the Execute that returned last has returned
    ncall,      \* number of calls of Actor functions so far
    cnt,        \* cnt[path]: how often Execute of the node at path was entered
    rs,         \* rs[path]: what Execute of the node at path returned last
    conds,      \* conds[path]: the values the condition of the While/If at path evaluated to
    endVals,    \* endVals[path]: whether the condition held when the body of the While at path returned
    seen,       \* seen[path]: the history the Actor function at path was last called with
    wlog,       \* the writes: [path, msg] for every chat.write of a step, in order
    ev,         \* the Actor step that returned in the last step, or NoEv
    storeImpl,  \* storeImpl[i]: the Store clone i refers to; <<>> before split
    lastSet,    \* the last Set a branch made: [by, val], or NoSet
    view,       \* the StoreRO the caller holds: [r], or NoView
    lastGetRO,  \* the last GetRO: [view, var, res], or NoGet
    lastActorID,\* the global lastActorID
    actors,     \* the Actors constructed, in construction order: [actorID, roleID, unsafe]
    lastOp,     \* the last write or trim on a Chat taken alone: [op, prev, stores]; the last
                \* RO(): [op, made], the Store as it was then; the last read of a
                \* history view: [op, got]; or NoOp
    heap,       \* the backing arrays of the slices, in allocation order
    hist,       \* c.history as a slice: [arr, off, len]
    hview       \* the view History() returned: [slice, snap, since], or NoHView

parVars == <<splitters, pc, bpc, wg, errors, ret, mi, mk, nw, trimmed, pre, merged, storeImpl>>
storeVars == <<stores, nextID, handles, shadow, lastGet>>
seqVars == <<prog, stk, res, ncall, cnt, rs, conds, endVals, seen, wlog, ev>>
sliceVars == <<heap, hist, hview>>
auxVars == <<lastSet, view, lastGetRO, lastActorID, actors, lastOp, sliceVars>>
vars == <<chat, lw, parVars, storeVars, seqVars, auxVars>>

NoWrite == [chat |-> -1]

----------------------------------------------------------------------------
(* chat.write, chat.trim, chat.uniqueMessages *)

Last(s, n) == SubSeq(s, Len(s) - n + 1, Len(s))

\* A write whose truncation test is off by one (> for >=).
writeLate(c, message) ==
    IF Len(c.history) > maxHistoryLength
    THEN LET keep == maxHistoryLength \div 2
         IN  [history |-> Append(Last(c.history, keep), message),
              offsetUnique |-> IF keep < c.offsetUnique
                               THEN 0
                               ELSE c.offsetUnique - (Len(c.history) - keep)]
    ELSE [history |-> Append(c.history, message), offsetUnique |-> c.offsetUnique]

\* A write that keeps one message too few when it truncates.
writeKeepLess(c, message) ==
    IF Len(c.history) >= maxHistoryLength
    THEN LET keep == (maxHistoryLength \div 2) - 1
         IN  [history |-> Append(Last(c.history, keep), message),
              offsetUnique |-> IF keep < c.offsetUnique
                               THEN 0
                               ELSE c.offsetUnique - (Len(c.history) - keep)]
    ELSE [history |-> Append(c.history, message), offsetUnique |-> c.offsetUnique]

write(c, message) ==
    IF Len(c.history) >= maxHistoryLength
    THEN LET keep == maxHistoryLength \div 2
         IN  [history |-> Append(Last(c.history, keep), message),
              offsetUnique |-> IF keep < c.offsetUnique
                               THEN 0
                               ELSE c.offsetUnique - (Len(c.history) - keep)]
    ELSE [history |-> Append(c.history, message), offsetUnique |-> c.offsetUnique]

\* A trim that leaves the unique offset as it is.
trimKeepOffset(c) == [history |-> <<>>, offsetUnique |-> c.offsetUnique]

\* chat.trim
trim(c) == [history |-> <<>>, offsetUnique |-> 0]

\* c.history[c.offsetUnique:] panics when the offset is out of range.
uniquePanics(c) == c.offsetUnique < 0 \/ c.offsetUnique > Len(c.history)

\* uniqueMessages that forgets the offset.
uniqueMessagesAll(c) == c.history

uniqueMessages(c) == SubSeq(c.history, c.offsetUnique + 1, Len(c.history))

NewChat == [history |-> <<>>, offsetUnique |-> 0]

\* A static step that ignores its trim flag.
staticExecuteNoTrim(c, message, t) == [before |-> c, after |-> write(c, message)]

\* staticPipeline.Execute: trim when flagged, then write the fixed message.
\* Returns the chat before the write and the chat after it.
staticExecute(c, message, t) ==
    LET c1 == IF t THEN trim(c) ELSE c
    IN  [before |-> c1, after |-> write(c1, message)]

----------------------------------------------------------------------------
(* Parallel *)

\* A split whose clones count the parent's messages as their own.
splitAllUnique(c, nr) == [i \in 1..nr |-> [history |-> c.history, offsetUnique |-> 0]]

split(c, nr) == [i \in 1..nr |-> [history |-> c.history, offsetUnique |-> Len(c.history)]]

\* A split that gives every clone but the last a Store of its own.
splitStoreOwn(s, nr) == [i \in 1..nr |-> IF i = nr THEN s ELSE (s % NStores) + 1]

\* storeImpl: c.store() for every clone.
splitStore(s, nr) == [i \in 1..nr |-> s]

\* fn(i) with the loop variable captured: every goroutine uses the last clone.
splitterOfCaptured(i) == NBranches

\* splitter := splitters[i]
splitterOf(i) == i

\* wg.Wait() returns as soon as some branch is done.
WaitReturnsAny == wg < NBranches

\* wg.Wait() returns when the counter is zero.
WaitReturns == wg = 0

\* parallel.trims(): every branch pipeline trims.  A branch pipeline is a
\* Chain of static steps; when it has returned nil every step has run, so
\* chain.trims() (some step is flagged trim) is trimmed[i].
trims == \A i \in Branches : trimmed[i]


----------------------------------------------------------------------------
(* Store (src/store/store.go) *)

\* The types T of Var[T] in the model: two concrete types and an interface type.
Types == {"bool", "int", "any"}

\* A value as sync.Map holds it: its dynamic type and its payload.  A nil
\* interface value has no dynamic type.
Nil == [type |-> "nil", val |-> "nil"]
Dyn(T, x) == [type |-> T, val |-> x]

\* The values of static type T.
ValuesOf(T) ==
    CASE T = "bool" -> {Dyn("bool", b) : b \in BOOLEAN}
      [] T = "int"  -> {Dyn("int", n) : n \in 0..1}
      [] T = "any"  -> {Nil} \cup {Dyn("bool", b) : b \in BOOLEAN}

\* var valT T
Zero(T) ==
    CASE T = "bool" -> Dyn("bool", FALSE)
      [] T = "int"  -> Dyn("int", 0)
      [] T = "any"  -> Nil

\* val.(T): fails on a nil interface value; holds for an interface type T
\* every non-nil value implements, and for a concrete T of the same type.
typeAssert(val, T) ==
    /\ val.type # "nil"
    /\ (T = "any" \/ val.type = T)

NewStore == << >>

NoGet == [store |-> 0]

Get(r, v) ==
    IF v.id \notin DOMAIN r
    THEN [val |-> Zero(v.type), found |-> FALSE, panic |-> FALSE]
    ELSE IF ~typeAssert(r[v.id], v.type)
    THEN [val |-> Zero(v.type), found |-> FALSE, panic |-> TRUE]
    ELSE [val |-> r[v.id], found |-> TRUE, panic |-> FALSE]

Set(r, v, val) ==
    [k \in DOMAIN r \cup {v.id} |-> IF k = v.id THEN val ELSE r[k]]

\* Every Var[T] FreshVar can return within the bound.
Vars == [id : 1..MaxVars, type : Types]
AllValues == UNION {ValuesOf(T) : T \in Types}

\* FreshVar[T]()
FreshVarStep(T) ==
    /\ nextID < MaxVars
    /\ nextID' = nextID + 1
    /\ handles' = handles \cup {[id |-> nextID + 1, type |-> T]}
    /\ lastGet' = NoGet
    /\ UNCHANGED <<chat, lw, parVars, seqVars, auxVars, stores, shadow>>

\* Set(r, v, x) on Store s
SetStep(s, v, x) ==
    /\ v \in handles
    /\ x \in ValuesOf(v.type)
    /\ stores' = [stores EXCEPT ![s] = Set(@, v, x)]
    /\ shadow' = [shadow EXCEPT ![s] = [k \in DOMAIN @ \cup {v.id} |-> IF k = v.id THEN x ELSE @[k]]]
    /\ lastGet' = NoGet
    /\ UNCHANGED <<chat, lw, parVars, seqVars, auxVars, nextID, handles>>

\* Get(r, v) on Store s
GetStep(s, v) ==
    /\ v \in handles
    /\ lastGet' = [store |-> s, var |-> v, res |-> Get(stores[s], v)]
    /\ UNCHANGED <<chat, lw, parVars, seqVars, auxVars, stores, nextID, handles, shadow>>

StoreInit ==
    /\ stores = [s \in StoreRefs |-> NewStore]
    /\ nextID = 0
    /\ handles = {}
    /\ shadow = [s \in StoreRefs |-> << >>]
    /\ lastGet = NoGet


----------------------------------------------------------------------------
(* Pipelines: static step, Actor step, Chain, While, If *)

\* UserPrompt(message, trim); the fixed message is the step's place in the tree.
UserPrompt(t) == [kind |-> "static", trim |-> t]

\* actor.Pipeline(echo, trim, retryLimit) of an Actor with identity id; echo
\* says whether the callback is non-nil.  The Actor function may Set the flag
\* (sets) and returns up to maxn messages.
ActorPipeline(id, echo, t, r, sets, maxn) ==
    [kind |-> "actor", id |-> id, echo |-> echo, trim |-> t, retryLimit |-> r,
     sets |-> sets, maxn |-> maxn]

Chain(ps) == [kind |-> "chain", pipelines |-> ps]
While(body) == [kind |-> "while", pipeline |-> body]
If(l, r) == [kind |-> "if", left |-> l, right |-> r]

\* The children of a node: p.pipelines[k], w.pipeline, p.left / p.right.
NChildren(n) ==
    CASE n.kind = "chain" -> Len(n.pipelines)
      [] n.kind = "while" -> 1
      [] n.kind = "if" -> 2
      [] n.kind = "parallel" -> Len(n.pipelines)
      [] OTHER -> 0

Child(n, k) ==
    CASE n.kind \in {"chain", "parallel"} -> n.pipelines[k]
      [] n.kind = "while" -> n.pipeline
      [] n.kind = "if" -> IF k = 1 THEN n.left ELSE n.right

RECURSIVE NodeAt(_, _)
NodeAt(n, path) ==
    IF path = <<>> THEN n ELSE NodeAt(Child(n, Head(path)), Tail(path))

RECURSIVE Paths(_)
Paths(n) ==
    {<<>>} \cup UNION {{<<k>> \o q : q \in Paths(Child(n, k))} : k \in 1..NChildren(n)}

\* A trims() whose Chain asks every child to trim.
RECURSIVE pipelineTrimsChainAll(_)
pipelineTrimsChainAll(n) ==
    CASE n.kind \in {"static", "actor"} -> n.trim
      [] n.kind = "chain" -> \A k \in 1..Len(n.pipelines) : pipelineTrimsChainAll(n.pipelines[k])
      [] n.kind = "while" -> pipelineTrimsChainAll(n.pipeline)
      [] n.kind = "if" -> pipelineTrimsChainAll(n.left) /\ pipelineTrimsChainAll(n.right)
      [] n.kind = "parallel" -> \A k \in 1..Len(n.pipelines) : pipelineTrimsChainAll(n.pipelines[k])

\* trims() of a Pipeline.
RECURSIVE pipelineTrims(_)
pipelineTrims(n) ==
    CASE n.kind \in {"static", "actor"} -> n.trim
      [] n.kind = "chain" -> \E k \in 1..Len(n.pipelines) : pipelineTrims(n.pipelines[k])
      [] n.kind = "while" -> pipelineTrims(n.pipeline)
      [] n.kind = "if" -> pipelineTrims(n.left) /\ pipelineTrims(n.right)
      [] n.kind = "parallel" -> \A k \in 1..Len(n.pipelines) : pipelineTrims(n.pipelines[k])

\* The handle the conditions read and the Actor functions set: the first
\* FreshVar[bool]() of the process.
flagVar == [id |-> 1, type |-> "bool"]

\* The Store of the Chat: NewChat's store.NewStore(), the first Store.
chatStore == CHOOSE s \in StoreRefs : \A t \in StoreRefs : s <= t

\* (r *store) RO(): a view that holds the reference to the Store.
RO(s) == [r |-> s]
NoView == [r |-> 0]

\* A GetRO that reads the first Store whatever the view wraps.
GetROFirst(r, v) == Get(stores[chatStore], v)

\* GetRO(r, v): Get on the Store behind the view, as it is now.
GetRO(r, v) == Get(stores[r.r], v)

\* The Condition of the While and If steps, given the view: the flag is set
\* and true.
condition(r) ==
    LET g == GetRO(r, flagVar) IN g.found /\ g.val.val = TRUE

NoEv == [path |-> <<0>>]

\* Results of Execute: nil, or the error of call number no.
NoRes == [kind |-> "none", no |-> 0]
NilRes == [kind |-> "nil", no |-> 0]
ErrRes(no) == [kind |-> "err", no |-> no]
IsErr(r) == r.kind = "err"

\* retryLimit off by one.
retryLimitOfMore(a) == IF a.retryLimit + 1 > 1 THEN a.retryLimit + 1 ELSE 1

\* retryLimit := max(1, a.retryLimit)
retryLimitOf(a) == IF a.retryLimit > 1 THEN a.retryLimit ELSE 1

\* A retry loop without the break on success.
loopEndsNoBreak(ok, i, limit) == i = limit - 1

\* for i := range retryLimit { ...; if err == nil { break } ... }
loopEnds(ok, i, limit) == ok \/ i = limit - 1

\* A loop that sleeps after every failed attempt, the last one too.
sleepsAfterAlways(ok, i, limit) == ~ok

\* if i < retryLimit-1 { ...; time.Sleep(backoff) }, reached when err != nil.
sleepsAfter(ok, i, limit) == ~ok /\ i < limit - 1

\* backoff := time.Duration(math.Pow(2, float64(i))) * time.Second, in seconds.
backoff(i) == 2 ^ i

\* The messages call number no returns: n messages, the actor id unset.
fnMessages(no, n) == [j \in 1..n |-> <<0, <<no, j>>>>]

\* An Actor step that leaves the actor field of its messages unset.
StampUser(a, m) == <<0, m[2]>>

\* message.actor = a.actorID
Stamp(a, m) == <<a.id, m[2]>>

RECURSIVE WriteAll(_, _)
WriteAll(c, ms) == IF ms = <<>> THEN c ELSE WriteAll(write(c, Head(ms)), Tail(ms))

\* The tail of actorPipeline.Execute with the trim done before the error test.
actorFinishTrimFirst(c, a, ok, ms) ==
    LET c1 == IF a.trim THEN trim(c) ELSE c
    IN  IF ~ok THEN c1 ELSE WriteAll(c1, [j \in 1..Len(ms) |-> Stamp(a, ms[j])])

\* The tail of actorPipeline.Execute with the trim flag ignored.
actorFinishNoTrim(c, a, ok, ms) ==
    IF ~ok THEN c ELSE WriteAll(c, [j \in 1..Len(ms) |-> Stamp(a, ms[j])])

\* actorPipeline.Execute after the loop: return err; else trim when flagged
\* and write every message, stamped.
actorFinish(c, a, ok, ms) ==
    LET c1 == IF a.trim THEN trim(c) ELSE c
    IN  IF ~ok THEN c ELSE WriteAll(c1, [j \in 1..Len(ms) |-> Stamp(a, ms[j])])

\* What the tail of Execute does, in order, with the echo made after the write.
RECURSIVE actorEventsEchoLate(_, _, _)
actorEventsEchoLate(a, ok, ms) ==
    IF ~ok THEN <<>>
    ELSE IF ms = <<>> THEN IF a.trim THEN <<[op |-> "trim", msg |-> <<>>]>> ELSE <<>>
    ELSE actorEventsEchoLate(a, ok, SubSeq(ms, 1, Len(ms) - 1))
         \o <<[op |-> "write", msg |-> Stamp(a, ms[Len(ms)])]>>
         \o (IF a.echo THEN <<[op |-> "echo", msg |-> ms[Len(ms)]]>> ELSE <<>>)

\* What actorPipeline.Execute does after the loop, in order: nothing when it
\* returns err; else chat.trim() when flagged, and for each message a.echo
\* (when non-nil, with the message as fn returned it) and then chat.write of
\* the stamped message.
RECURSIVE actorEvents(_, _, _)
actorEvents(a, ok, ms) ==
    IF ~ok THEN <<>>
    ELSE IF ms = <<>> THEN IF a.trim THEN <<[op |-> "trim", msg |-> <<>>]>> ELSE <<>>
    ELSE actorEvents(a, ok, SubSeq(ms, 1, Len(ms) - 1))
         \o (IF a.echo THEN <<[op |-> "echo", msg |-> ms[Len(ms)]]>> ELSE <<>>)
         \o <<[op |-> "write", msg |-> Stamp(a, ms[Len(ms)])]>>

----------------------------------------------------------------------------
\* No Parallel step has been started.
ParIdle ==
    /\ splitters = <<>>
    /\ pc = "idle"
    /\ bpc = [i \in Branches |-> "none"]
    /\ wg = 0
    /\ errors = <<>>
    /\ ret = "none"
    /\ mi = 0
    /\ mk = 0
    /\ nw = [w \in 0..NBranches |-> 0]
    /\ trimmed = [i \in Branches |-> FALSE]
    /\ pre = <<>>
    /\ merged = [i \in Branches |-> <<>>]
    /\ lw = NoWrite
    /\ storeImpl = <<>>

ParInit ==
    /\ chat = NewChat
    /\ ParIdle

NoSet == [by |-> -1]
NoOp == [op |-> "none"]
NoHView == [slice |-> [arr |-> 0, off |-> 0, len |-> 0]]

\* No branch has Set, no view is held, no Actor is constructed.
AuxInit ==
    /\ lastSet = NoSet
    /\ view = NoView
    /\ lastGetRO = NoGet
    /\ lastActorID = 0
    /\ actors = <<>>
    /\ lastOp = NoOp
    /\ heap = <<<<>>>>
    /\ hist = [arr |-> 1, off |-> 0, len |-> 0]
    /\ hview = NoHView

\* No pipeline is being executed by the sequential engine.
SeqIdle ==
    /\ prog = UserPrompt(FALSE)
    /\ stk = <<>>
    /\ res = NoRes
    /\ ncall = 0
    /\ cnt = << >>
    /\ rs = << >>
    /\ conds = << >>
    /\ endVals = << >>
    /\ seen = << >>
    /\ wlog = <<>>
    /\ ev = NoEv

Init ==
    /\ StoreInit
    /\ SeqIdle
    /\ ParInit
    /\ AuxInit

\* The caller executes UserPrompt(msg, t) on the top-level Chat.
StaticStep(t) ==
    /\ pc = "idle"
    /\ nw[0] < MaxTopWrites
    /\ LET m == <<0, nw[0] + 1>>
           r == staticExecute(chat, m, t)
       IN  /\ chat' = r.after
           /\ lw' = [chat |-> 0, prev |-> r.before, msg |-> m]
    /\ nw' = [nw EXCEPT ![0] = @ + 1]
    /\ UNCHANGED <<splitters, pc, bpc, wg, errors, ret, mi, mk, trimmed, pre, merged, storeImpl>>
    /\ UNCHANGED <<storeVars, seqVars, auxVars>>

\* parallel.Execute up to wg.Wait(): split, wg.Add, go fn(i) for every i.
ParallelStart ==
    /\ pc = "idle"
    /\ splitters = <<>>
    /\ splitters' = split(chat, NBranches)
    /\ storeImpl' = splitStore(chatStore, NBranches)
    /\ wg' = NBranches
    /\ errors' = <<>>
    /\ bpc' = [i \in Branches |-> "run"]
    /\ pc' = "wait"
    /\ pre' = chat.history
    /\ lw' = NoWrite
    /\ UNCHANGED <<chat, ret, mi, mk, nw, trimmed, merged>>
    /\ UNCHANGED <<storeVars, seqVars, auxVars>>

\* Branch i's pipeline executes a static step on its clone.
BranchStatic(i, t) ==
    /\ bpc[i] = "run"
    /\ nw[i] < MaxBranchWrites
    /\ LET m == <<i, nw[i] + 1>>
           s == splitterOf(i)
           r == staticExecute(splitters[s], m, t)
       IN  /\ splitters' = [splitters EXCEPT ![s] = r.after]
           /\ lw' = [chat |-> s, prev |-> r.before, msg |-> m]
    /\ nw' = [nw EXCEPT ![i] = @ + 1]
    /\ trimmed' = [trimmed EXCEPT ![i] = @ \/ t]
    /\ UNCHANGED <<chat, pc, bpc, wg, errors, ret, mi, mk, pre, merged, storeImpl>>
    /\ UNCHANGED <<storeVars, seqVars, auxVars>>

\* Branch i's pipeline returns an error: fn appends it and returns.
BranchFail(i) ==
    /\ bpc[i] = "run"
    /\ errors' = Append(errors, i)
    /\ bpc' = [bpc EXCEPT ![i] = "failed"]
    /\ lw' = NoWrite
    /\ UNCHANGED <<chat, splitters, pc, wg, ret, mi, mk, nw, trimmed, pre, merged, storeImpl>>
    /\ UNCHANGED <<storeVars, seqVars, auxVars>>

\* Branch i's pipeline returns nil: fn calls wg.Done().
BranchDone(i) ==
    /\ bpc[i] = "run"
    /\ wg' = wg - 1
    /\ bpc' = [bpc EXCEPT ![i] = "done"]
    /\ lw' = NoWrite
    /\ UNCHANGED <<chat, splitters, pc, errors, ret, mi, mk, nw, trimmed, pre, merged, storeImpl>>
    /\ UNCHANGED <<storeVars, seqVars, auxVars>>

\* wg.Wait() returns; the errors are looked at; the parent is trimmed.
Join ==
    /\ pc = "wait"
    /\ WaitReturns
    /\ IF Len(errors) > 0
       THEN /\ ret' = "err"
            /\ pc' = "idle"
            /\ UNCHANGED <<chat, mi, mk>>
       ELSE /\ chat' = IF trims THEN trim(chat) ELSE chat
            /\ pc' = "merge"
            /\ mi' = 1
            /\ mk' = 0
            /\ UNCHANGED ret
    /\ lw' = NoWrite
    /\ UNCHANGED <<splitters, bpc, wg, errors, nw, trimmed, pre, merged, storeImpl>>
    /\ UNCHANGED <<storeVars, seqVars, auxVars>>

\* One step of the merge loops of parallel.Execute.
MergeStep ==
    /\ pc = "merge"
    /\ IF mi > NBranches
       THEN /\ ret' = "nil"
            /\ pc' = "idle"
            /\ lw' = NoWrite
            /\ UNCHANGED <<chat, mi, mk, merged>>
       ELSE IF uniquePanics(splitters[mi])
       THEN /\ pc' = "panic"
            /\ lw' = NoWrite
            /\ UNCHANGED <<chat, ret, mi, mk, merged>>
       ELSE IF mk < Len(uniqueMessages(splitters[mi]))
       THEN LET m == uniqueMessages(splitters[mi])[mk + 1]
            IN  /\ chat' = write(chat, m)
                /\ lw' = [chat |-> 0, prev |-> chat, msg |-> m]
                /\ merged' = [merged EXCEPT ![mi] = Append(@, m)]
                /\ mk' = mk + 1
                /\ UNCHANGED <<pc, ret, mi>>
       ELSE /\ mi' = mi + 1
            /\ mk' = 0
            /\ lw' = NoWrite
            /\ UNCHANGED <<chat, pc, ret, merged>>
    /\ UNCHANGED <<splitters, bpc, wg, errors, nw, trimmed, pre, storeImpl>>
    /\ UNCHANGED <<storeVars, seqVars, auxVars>>

Next ==
    \/ \E t \in BOOLEAN : StaticStep(t)
    \/ ParallelStart
    \/ \E i \in Branches, t \in BOOLEAN : BranchStatic(i, t)
    \/ \E i \in Branches : BranchFail(i)
    \/ \E i \in Branches : BranchDone(i)
    \/ Join
    \/ MergeStep

Spec == Init /\ [][Next]_vars

\* The Store on its own: handles are allocated, set and read on every Store.
NextStore ==
    \/ \E T \in Types : FreshVarStep(T)
    \/ \E s \in StoreRefs, v \in Vars, x \in AllValues : SetStep(s, v, x)
    \/ \E s \in StoreRefs, v \in Vars : GetStep(s, v)

SpecStore == Init /\ [][NextStore]_vars



----------------------------------------------------------------------------
(* Parallel branches that Set and Get on the Store of their clone *)

\* The one handle the branches share.
sharedVar == CHOOSE v \in handles : TRUE

\* The Store behind the clone goroutine i works on: splitter.store().
storeOfBranch(i) == storeImpl[splitterOf(i)]

\* A branch's pipeline (an Actor function) calls Set(r, v, x).
BranchSet(i, x) ==
    /\ pc = "wait"
    /\ bpc[i] = "run"
    /\ x \in ValuesOf(sharedVar.type)
    /\ stores' = [stores EXCEPT ![storeOfBranch(i)] = Set(@, sharedVar, x)]
    /\ shadow' = [shadow EXCEPT ![storeOfBranch(i)] = (sharedVar.id :> x)]
    /\ lastSet' = [by |-> i, val |-> x,
                   all |-> IF lastSet = NoSet THEN {x} ELSE lastSet.all \cup {x}]
    /\ lastGet' = NoGet
    /\ lw' = NoWrite
    /\ UNCHANGED <<chat, parVars, seqVars, nextID, handles>>
    /\ UNCHANGED <<view, lastGetRO, lastActorID, actors, lastOp, sliceVars>>

\* A branch's pipeline calls Get(r, v); a panic there ends the process.
BranchGet(i) ==
    /\ pc = "wait"
    /\ bpc[i] = "run"
    /\ LET g == Get(stores[storeOfBranch(i)], sharedVar)
       IN  /\ lastGet' = [store |-> storeOfBranch(i), var |-> sharedVar, res |-> g, by |-> i]
           /\ pc' = IF g.panic THEN "panic" ELSE pc
    /\ lw' = NoWrite
    /\ UNCHANGED <<chat, splitters, bpc, wg, errors, ret, mi, mk, nw, trimmed, pre, merged, storeImpl>>
    /\ UNCHANGED <<seqVars, auxVars, stores, nextID, handles, shadow>>

\* The caller calls Get on the Chat's Store after parallel.Execute returned nil.
ParentGet ==
    /\ pc = "idle"
    /\ ret = "nil"
    /\ LET g == Get(stores[chatStore], sharedVar)
       IN  /\ lastGet' = [store |-> chatStore, var |-> sharedVar, res |-> g, by |-> 0]
           /\ pc' = IF g.panic THEN "panic" ELSE pc
    /\ lw' = NoWrite
    /\ UNCHANGED <<chat, splitters, bpc, wg, errors, ret, mi, mk, nw, trimmed, pre, merged, storeImpl>>
    /\ UNCHANGED <<seqVars, auxVars, stores, nextID, handles, shadow>>

\* The caller has made one handle with FreshVar[T]() and executes a Parallel
\* step on a new Chat.
InitShared ==
    /\ ParInit
    /\ AuxInit
    /\ SeqIdle
    /\ stores = [s \in StoreRefs |-> NewStore]
    /\ shadow = [s \in StoreRefs |-> << >>]
    /\ nextID = 1
    /\ \E T \in Types : handles = {[id |-> 1, type |-> T]}
    /\ lastGet = NoGet

NextShared ==
    \/ ParallelStart
    \/ \E i \in Branches, x \in AllValues : BranchSet(i, x)
    \/ \E i \in Branches : BranchGet(i)
    \/ \E i \in Branches : BranchDone(i)
    \/ \E i \in Branches : BranchFail(i)
    \/ Join
    \/ MergeStep
    \/ ParentGet

SpecShared == InitShared /\ [][NextShared]_vars


----------------------------------------------------------------------------
(* A Chat taken alone: write and trim on any Chat *)

\* The longest history the Chat starts with.
MaxInitLen == 3

\* Histories of at most n messages of the caller.
RECURSIVE HistoriesUpTo(_)
HistoriesUpTo(n) ==
    IF n = 0 THEN {<<>>}
    ELSE LET shorter == HistoriesUpTo(n - 1)
         IN  shorter \cup {Append(h, <<0, k>>) : h \in shorter, k \in 1..2}

\* chat.write(message)
ChatWrite(k) ==
    /\ nw[0] < MaxTopWrites
    /\ chat' = write(chat, <<0, k>>)
    /\ lastOp' = [op |-> "write", prev |-> chat, stores |-> stores]
    /\ nw' = [nw EXCEPT ![0] = @ + 1]
    /\ UNCHANGED <<splitters, pc, bpc, wg, errors, ret, mi, mk, trimmed, pre, merged, storeImpl>>
    /\ UNCHANGED <<lw, storeVars, seqVars, lastSet, view, lastGetRO, lastActorID, actors, sliceVars>>

\* chat.trim()
ChatTrim ==
    /\ chat' = trim(chat)
    /\ lastOp' = [op |-> "trim", prev |-> chat, stores |-> stores]
    /\ UNCHANGED <<lw, parVars, storeVars, seqVars, lastSet, view, lastGetRO, lastActorID, actors, sliceVars>>

\* Any Chat: the top-level Chat (offset 0) or a clone (offset within the
\* history), with a Store that is empty or holds the flag.
InitChat ==
    /\ \E h \in HistoriesUpTo(MaxInitLen) : \E o \in 0..Len(h) :
          chat = [history |-> h, offsetUnique |-> o]
    /\ ParIdle
    /\ AuxInit
    /\ SeqIdle
    /\ nextID = 1
    /\ handles = {flagVar}
    /\ \E st \in {NewStore} \cup {Set(NewStore, flagVar, Dyn("bool", b)) : b \in BOOLEAN} :
          /\ stores = [s \in StoreRefs |-> IF s = chatStore THEN st ELSE NewStore]
          /\ shadow = [s \in StoreRefs |-> IF s = chatStore THEN st ELSE NewStore]
    /\ lastGet = NoGet

NextChat ==
    \/ \E k \in 1..2 : ChatWrite(k)
    \/ ChatTrim

SpecChat == InitChat /\ [][NextChat]_vars


----------------------------------------------------------------------------
(* c.history as a Go slice over a backing array, and the view History()    *)
(* returns, which wraps that slice without copying it                      *)

\* The most writes and trims on the Chat.
MaxSliceOps == 6

\* The zero Message of a cell not yet written.
ZeroMessage == <<0, 0>>

\* The elements of slice s.
SliceOf(h, s) == SubSeq(h[s.arr], s.off + 1, s.off + s.len)

\* cap(s)
capOf(h, s) == Len(h[s.arr]) - s.off

\* s[a:]
reslice(s, a) == [arr |-> s.arr, off |-> s.off + a, len |-> s.len - a]

\* make([]Message, 0): a new array.
makeSlice(h) ==
    [heap |-> Append(h, <<>>), slice |-> [arr |-> Len(h) + 1, off |-> 0, len |-> 0]]

\* append(s, m): in place when len(s) < cap(s), else into a new array of
\* capacity newcap that holds a copy of the elements.
appendSlice(h, s, m, newcap) ==
    IF s.len < capOf(h, s)
    THEN [heap |-> [h EXCEPT ![s.arr][s.off + s.len + 1] = m],
          slice |-> [s EXCEPT !.len = @ + 1]]
    ELSE [heap |-> Append(h, SliceOf(h, s) \o <<m>>
                             \o [j \in 1..(newcap - s.len - 1) |-> ZeroMessage]),
          slice |-> [arr |-> Len(h) + 1, off |-> 0, len |-> s.len + 1]]

\* The capacities the runtime may give the new array of an append to a full
\* slice of length n: the language fixes only that the element fits.
NewCaps(n) == {n + 1, n + 2}

\* A trim that empties the slice and keeps its array: c.history[:0].
trimSliceReuse(h, s) == [heap |-> h, slice |-> [s EXCEPT !.len = 0]]

\* chat.trim on the slice: c.history = make([]Message, 0)
trimSlice(h, s) == makeSlice(h)

\* chat.write on the slice: the reslice at the ceiling, then the append.
writeSlice(h, s, m, newcap) ==
    IF s.len >= maxHistoryLength
    THEN appendSlice(h, reslice(s, s.len - maxHistoryLength \div 2), m, newcap)
    ELSE appendSlice(h, s, m, newcap)

\* What has happened to the Chat since the view was made.
Since(kinds) ==
    IF hview = NoHView THEN hview ELSE [hview EXCEPT !.since = @ \cup kinds]

\* chat.write(message) on the top-level Chat; the message is new.
SliceWrite(newcap) ==
    /\ nw[0] < MaxSliceOps
    /\ newcap \in NewCaps(IF hist.len >= maxHistoryLength
                          THEN maxHistoryLength \div 2 ELSE hist.len)
    /\ LET m == <<0, nw[0] + 1>>
           r == writeSlice(heap, hist, m, newcap)
       IN  /\ heap' = r.heap
           /\ hist' = r.slice
           /\ chat' = write(chat, m)
           /\ hview' = Since({"write"}
                             \cup (IF hist.len >= maxHistoryLength THEN {"truncate"} ELSE {})
                             \cup (IF r.slice.arr = hview.slice.arr THEN {"shared"} ELSE {}))
    /\ nw' = [nw EXCEPT ![0] = @ + 1]
    /\ lastOp' = NoOp
    /\ UNCHANGED <<splitters, pc, bpc, wg, errors, ret, mi, mk, trimmed, pre, merged, storeImpl>>
    /\ UNCHANGED <<lw, storeVars, seqVars, lastSet, view, lastGetRO, lastActorID, actors>>

\* chat.trim() on the top-level Chat.
SliceTrim ==
    /\ nw[0] < MaxSliceOps
    /\ LET r == trimSlice(heap, hist)
       IN  /\ heap' = r.heap
           /\ hist' = r.slice
    /\ chat' = trim(chat)
    /\ hview' = Since({"trim"})
    /\ nw' = [nw EXCEPT ![0] = @ + 1]
    /\ lastOp' = NoOp
    /\ UNCHANGED <<splitters, pc, bpc, wg, errors, ret, mi, mk, trimmed, pre, merged, storeImpl>>
    /\ UNCHANGED <<lw, storeVars, seqVars, lastSet, view, lastGetRO, lastActorID, actors>>

\* chat.History(): slicev.NewRO(c.history) keeps the slice it is given; snap
\* is what the slice held then.
SliceHistory ==
    /\ hview' = [slice |-> hist, snap |-> SliceOf(heap, hist), since |-> {}]
    /\ lastOp' = NoOp
    /\ UNCHANGED <<chat, lw, parVars, storeVars, seqVars, heap, hist>>
    /\ UNCHANGED <<lastSet, view, lastGetRO, lastActorID, actors>>

\* An attempt of the Actor function reads the view: Len, At, CopyTo, Iterator.
SliceRead ==
    /\ hview # NoHView
    /\ lastOp' = [op |-> "read", got |-> SliceOf(heap, hview.slice)]
    /\ UNCHANGED <<chat, lw, parVars, storeVars, seqVars, sliceVars>>
    /\ UNCHANGED <<lastSet, view, lastGetRO, lastActorID, actors>>

NextSlice ==
    \/ \E newcap \in 1..(maxHistoryLength + 2) : SliceWrite(newcap)
    \/ SliceTrim
    \/ SliceHistory
    \/ SliceRead

SpecSlice == Init /\ [][NextSlice]_vars


----------------------------------------------------------------------------
(* Parallel over pipelines: every branch is a tree of static, Actor, Chain, *)
(* While and If steps, executed on its clone                                *)

Parallel(ps) == [kind |-> "parallel", pipelines |-> ps]

\* A Parallel step that trims the parent when some branch pipeline trims.
parallelTrimsSome(p) == \E k \in 1..Len(p.pipelines) : pipelineTrims(p.pipelines[k])

\* parallel.trims()
parallelTrims(p) == \A k \in 1..Len(p.pipelines) : pipelineTrims(p.pipelines[k])

\* What an Actor function does when a branch calls it: succeed or fail
\* (then on every attempt), returning n messages.
TreeOutcomes == [ok : BOOLEAN, n : 0..1]

\* Execute of the node n at path on the Chat st.chat, the conditions reading
\* through view v and the Actor functions behaving as o.  st.ok: no error so
\* far; st.div: Execute does not return (a While whose condition stays true);
\* st.performed: chat.trim() was called; st.wl: the messages the static and
\* Actor steps wrote.
RECURSIVE Exec(_, _, _, _, _)
RECURSIVE ExecChain(_, _, _, _, _, _)
RECURSIVE ExecBranches(_, _, _, _, _, _)

\* for _, message := range splitter.uniqueMessages() { chat.write(message) },
\* for the clones bs[k..]; st.div when uniqueMessages panics.
RECURSIVE MergeAll(_, _, _)
MergeAll(st, bs, k) ==
    IF k > Len(bs) THEN st
    ELSE IF uniquePanics(bs[k].chat) THEN [st EXCEPT !.div = TRUE]
    ELSE MergeAll([st EXCEPT !.chat = WriteAll(@, uniqueMessages(bs[k].chat))], bs, k + 1)

Exec(n, path, st, o, v) ==
    IF ~st.ok \/ st.div THEN st
    ELSE CASE n.kind = "static" ->
                LET m == <<0, path>>
                    r == staticExecute(st.chat, m, n.trim)
                IN  [st EXCEPT !.chat = r.after,
                               !.performed = @ \/ n.trim,
                               !.wl = Append(@, [path |-> path, msg |-> m])]
           [] n.kind = "actor" ->
                IF o.ok
                THEN LET no == st.ncall + 1
                         ms == fnMessages(no, o.n)
                     IN  [st EXCEPT !.chat = actorFinish(@, n, TRUE, ms),
                                    !.performed = @ \/ n.trim,
                                    !.wl = @ \o [j \in 1..o.n |-> [path |-> path, msg |-> Stamp(n, ms[j])]],
                                    !.ncall = no]
                ELSE [st EXCEPT !.ok = FALSE, !.ncall = @ + retryLimitOf(n)]
           [] n.kind = "chain" -> ExecChain(n, path, st, o, v, 1)
           [] n.kind = "while" ->
                IF condition(v)
                THEN LET s1 == Exec(n.pipeline, Append(path, 1), st, o, v)
                     IN  IF s1.ok THEN [s1 EXCEPT !.div = TRUE] ELSE s1
                ELSE st
           [] n.kind = "if" ->
                IF condition(v)
                THEN Exec(n.left, Append(path, 1), st, o, v)
                ELSE Exec(n.right, Append(path, 2), st, o, v)
           [] n.kind = "parallel" ->
                IF Len(n.pipelines) = 0 THEN st
                ELSE LET bs == ExecBranches(n, path, st, o, v, 1)
                         end == [st EXCEPT !.wl = bs[Len(bs)].wl, !.ncall = bs[Len(bs)].ncall]
                     IN  IF \E k \in 1..Len(bs) : ~bs[k].ok \/ bs[k].div
                         THEN [end EXCEPT !.div = TRUE]
                         ELSE IF pipelineTrims(n)
                         THEN MergeAll([end EXCEPT !.chat = trim(@), !.performed = TRUE], bs, 1)
                         ELSE MergeAll(end, bs, 1)

\* The branches k.. of a Parallel inside a branch, each on its clone of
\* st.chat, with the Store of st.chat.  The clones are private and the
\* branches only read the Store, so running them one after the other gives
\* what any interleaving gives; a branch that fails or does not return
\* leaves wg.Wait() waiting.
ExecBranches(n, path, st, o, v, k) ==
    IF k > Len(n.pipelines) THEN <<>>
    ELSE LET b == Exec(n.pipelines[k], Append(path, k),
                       [st EXCEPT !.chat = split(st.chat, Len(n.pipelines))[k],
                                  !.performed = FALSE],
                       o, v)
         IN  <<b>> \o ExecBranches(n, path, [st EXCEPT !.wl = b.wl, !.ncall = b.ncall], o, v, k + 1)

ExecChain(n, path, st, o, v, k) ==
    IF k > Len(n.pipelines) THEN st
    ELSE ExecChain(n, path, Exec(n.pipelines[k], Append(path, k), st, o, v), o, v, k + 1)

\* go fn(i): the branch pipeline is executed on its clone; wg.Done() when it
\* returned nil, the error appended when it did not.
BranchRun(i, o) ==
    /\ pc = "wait"
    /\ bpc[i] = "run"
    /\ LET c == splitterOf(i)
           st == Exec(prog.pipelines[i], <<i>>,
                      [chat |-> splitters[c], ok |-> TRUE, div |-> FALSE,
                       performed |-> FALSE, wl |-> <<>>, ncall |-> ncall],
                      o, RO(storeImpl[c]))
       IN  /\ ~st.div
           /\ splitters' = [splitters EXCEPT ![c] = st.chat]
           /\ trimmed' = [trimmed EXCEPT ![i] = st.performed]
           /\ wlog' = wlog \o st.wl
           /\ ncall' = st.ncall
           /\ IF st.ok
              THEN /\ wg' = wg - 1
                   /\ bpc' = [bpc EXCEPT ![i] = "done"]
                   /\ UNCHANGED errors
              ELSE /\ errors' = Append(errors, i)
                   /\ bpc' = [bpc EXCEPT ![i] = "failed"]
                   /\ UNCHANGED wg
    /\ lw' = NoWrite
    /\ UNCHANGED <<chat, pc, ret, mi, mk, nw, pre, merged, storeImpl>>
    /\ UNCHANGED <<storeVars, auxVars, prog, stk, res, cnt, rs, conds, endVals, seen, ev>>

\* parallel.Execute of a Parallel with pipelines: the split and the go fn(i).
ParallelStartTree ==
    /\ Len(prog.pipelines) # 0
    /\ ParallelStart

\* if len(p.pipelines) == 0 { return nil }
ParallelEmpty ==
    /\ pc = "idle"
    /\ ret = "none"
    /\ Len(prog.pipelines) = 0
    /\ ret' = "nil"
    /\ pre' = chat.history
    /\ lw' = NoWrite
    /\ UNCHANGED <<chat, splitters, pc, bpc, wg, errors, mi, mk, nw, trimmed, merged, storeImpl>>
    /\ UNCHANGED <<storeVars, seqVars, auxVars>>

\* wg.Wait() returns; the errors are looked at; the parent is trimmed when
\* p.trims().
JoinTree ==
    /\ pc = "wait"
    /\ WaitReturns
    /\ IF Len(errors) > 0
       THEN /\ ret' = "err"
            /\ pc' = "idle"
            /\ UNCHANGED <<chat, mi, mk>>
       ELSE /\ chat' = IF parallelTrims(prog) THEN trim(chat) ELSE chat
            /\ pc' = "merge"
            /\ mi' = 1
            /\ mk' = 0
            /\ UNCHANGED ret
    /\ lw' = NoWrite
    /\ UNCHANGED <<splitters, bpc, wg, errors, nw, trimmed, pre, merged, storeImpl>>
    /\ UNCHANGED <<storeVars, seqVars, auxVars>>

\* The most messages the parent holds before the step.
MaxPre == 2

\* The branch pipelines the caller builds.
TreeLeaves ==
    {UserPrompt(t) : t \in BOOLEAN}
    \cup {ActorPipeline(1, TRUE, t, 1, FALSE, 1) : t \in BOOLEAN}
    \cup {While(UserPrompt(TRUE)),
          If(UserPrompt(TRUE), UserPrompt(FALSE)),
          Chain(<<ActorPipeline(2, FALSE, FALSE, 2, FALSE, 1), UserPrompt(TRUE)>>),
          Parallel(<<UserPrompt(FALSE), ActorPipeline(2, FALSE, FALSE, 1, FALSE, 1)>>),
          Parallel(<<>>)}

\* The caller has made the flag and may have Set it, holds a Chat with up to
\* MaxPre messages and executes Parallel(b1, ..., bn) on it.
InitTree ==
    /\ \E n \in 0..MaxPre :
          chat = [history |-> [j \in 1..n |-> <<0, <<0, j>>>>], offsetUnique |-> 0]
    /\ ParIdle
    /\ AuxInit
    /\ nextID = 1
    /\ handles = {flagVar}
    /\ \E st \in {NewStore} \cup {Set(NewStore, flagVar, Dyn("bool", b)) : b \in BOOLEAN} :
          /\ stores = [s \in StoreRefs |-> IF s = chatStore THEN st ELSE NewStore]
          /\ shadow = [s \in StoreRefs |-> IF s = chatStore THEN st ELSE NewStore]
    /\ lastGet = NoGet
    /\ \/ \E ps \in [Branches -> TreeLeaves] : prog = Parallel(ps)
       \/ prog = Parallel(<<>>)
    /\ stk = <<>>
    /\ res = NoRes
    /\ ncall = 0
    /\ cnt = << >>
    /\ rs = << >>
    /\ conds = << >>
    /\ endVals = << >>
    /\ seen = << >>
    /\ wlog = <<>>
    /\ ev = NoEv

NextTree ==
    \/ ParallelStartTree
    \/ ParallelEmpty
    \/ \E i \in Branches, o \in TreeOutcomes : BranchRun(i, o)
    \/ JoinTree
    \/ MergeStep

SpecTree == InitTree /\ [][NextTree]_vars


----------------------------------------------------------------------------
(* Construction of Actors: NewActor, NewActorUnsafe *)

\* Actors the process constructs.
MaxActors == 3

\* const userActorID actorID = 0
userActorID == 0

Roles == {"user", "assistant", "function"}

\* An add that returns the value before the addition and stores nothing.
AddUint32Stuck(x, d) == x

\* atomic.AddUint32(&x, d): the new value.  The sum wraps at 2^32, above
\* every integer the model checker represents (below 2^31): for every
\* counter value of the model the 32-bit sum is the sum.
AddUint32(x, d) == x + d

\* NewActor(role, fn) when ~unsafe, NewActorUnsafe(role, fn) when unsafe.
NewActorStep(role, unsafe) ==
    /\ Len(actors) < MaxActors
    /\ LET id == AddUint32(lastActorID, 1)
       IN  /\ lastActorID' = id
           /\ actors' = Append(actors, [actorID |-> id, roleID |-> role, unsafe |-> unsafe])
    /\ UNCHANGED <<chat, lw, parVars, storeVars, seqVars, lastSet, view, lastGetRO, lastOp, sliceVars>>

NextActors == \E role \in Roles, unsafe \in BOOLEAN : NewActorStep(role, unsafe)

SpecActors == Init /\ [][NextActors]_vars


----------------------------------------------------------------------------
(* Read-only views: RO, GetRO and the evaluation of a Condition *)

\* view := r.RO() on Store s
ROStep(s) ==
    /\ view' = RO(s)
    /\ lastOp' = [op |-> "ro", made |-> stores[s]]
    /\ UNCHANGED <<chat, lw, parVars, storeVars, seqVars, lastSet, lastGetRO, lastActorID, actors, sliceVars>>

\* GetRO(view, v) on the view the caller holds
GetROStep(v) ==
    /\ view # NoView
    /\ v \in handles
    /\ lastGetRO' = [view |-> view, var |-> v, res |-> GetRO(view, v),
                     direct |-> Get(shadow[view.r], v)]
    /\ UNCHANGED <<chat, lw, parVars, storeVars, seqVars, lastSet, view, lastActorID, actors, lastOp, sliceVars>>

\* w.condition(chat.store().RO()) / p.condition(chat.store().RO()) on Store s
CondStep(s) ==
    /\ flagVar \in handles
    /\ lastGetRO' = [view |-> RO(s), var |-> flagVar, res |-> GetRO(RO(s), flagVar),
                     direct |-> Get(shadow[s], flagVar), cond |-> condition(RO(s))]
    /\ UNCHANGED <<chat, lw, parVars, storeVars, seqVars, lastSet, view, lastActorID, actors, lastOp, sliceVars>>

\* The caller has made one handle with FreshVar[T]() and the Stores.
InitView ==
    /\ ParInit
    /\ AuxInit
    /\ SeqIdle
    /\ stores = [s \in StoreRefs |-> NewStore]
    /\ shadow = [s \in StoreRefs |-> << >>]
    /\ nextID = 1
    /\ \E T \in Types : handles = {[id |-> 1, type |-> T]}
    /\ lastGet = NoGet

NextView ==
    \/ \E s \in StoreRefs, v \in Vars, x \in AllValues : SetStep(s, v, x)
    \/ \E s \in StoreRefs : ROStep(s)
    \/ \E v \in Vars : GetROStep(v)
    \/ \E s \in StoreRefs : CondStep(s)

SpecView == InitView /\ [][NextView]_vars

----------------------------------------------------------------------------
(* The sequential engine: Execute of static, Actor, Chain, While and If *)

\* The next child of a Chain taken from the end.
chainNextReversed(n, k) == Len(n.pipelines) - k

\* for _, pipeline := range c.pipelines
chainNext(n, k) == k + 1

\* A Chain / While that goes on after an error.
stopsNever(r) == FALSE

\* if err != nil { return err }
chainStops(r) == IsErr(r)

whileStops(r) == IsErr(r)

\* A Chain that puts the Chat back as it found it when a child fails.
chainReturnRollback(c, before, r) == IF IsErr(r) THEN before ELSE c

\* The Chat chain.Execute leaves when it returns r: as the children left it.
chainReturn(c, before, r) == c

\* A do-while: the body runs once before the condition is looked at.
whileContinuesDo(k, r) == k = 0 \/ condition(r)

\* for w.condition(chat.store().RO())
whileContinues(k, r) == condition(r)

\* An If that always takes the left branch.
ifBranchLeft(c) == 1

\* if p.condition(...) { return p.left.Execute(chat) }; return p.right.Execute(chat)
ifBranch(c) == IF c THEN 1 ELSE 2

Top == stk[Len(stk)]
TopNode == NodeAt(prog, Top.path)
Pop == SubSeq(stk, 1, Len(stk) - 1)

\* A frame: the node, the loop counter (child, attempt or iteration), the
\* history taken at entry (history := chat.History()), and for the
\* properties the calls made, the Chat at entry and the writes before entry.
Frame(path, c, wl) ==
    [path |-> path, k |-> 0, snap |-> c.history, outs |-> <<>>, before |-> c, wl |-> wl,
     sleeps |-> <<>>]

\* The frame on top is replaced by f and the Execute of its child k is entered.
Enter(f, k) ==
    /\ stk' = Append(Append(Pop, f), Frame(Append(f.path, k), chat, Len(wlog)))
    /\ cnt' = [cnt EXCEPT ![Append(f.path, k)] = @ + 1]
    /\ res' = NoRes

\* Execute of the node on top returns r.
Return(r) ==
    /\ stk' = Pop
    /\ res' = r
    /\ rs' = [rs EXCEPT ![Top.path] = r]

\* What an Actor function may do in one call: succeed or fail, return n
\* messages, and Set the flag or leave it.
Outcomes == [ok : BOOLEAN, n : 0..MaxMsgs, set : {"none", "true", "false"}]

\* staticPipeline.Execute
SeqStatic ==
    /\ stk # <<>>
    /\ TopNode.kind = "static"
    /\ LET m == <<0, Top.path>>
           r == staticExecute(chat, m, TopNode.trim)
       IN  /\ chat' = r.after
           /\ lw' = [chat |-> 0, prev |-> r.before, msg |-> m]
           /\ wlog' = Append(wlog, [path |-> Top.path, msg |-> m])
    /\ Return(NilRes)
    /\ ev' = NoEv
    /\ UNCHANGED <<parVars, auxVars, storeVars, prog, ncall, cnt, conds, endVals, seen>>

\* actorPipeline.Execute: one call of a.fn, and what follows it: the sleep
\* and the next round of the loop, or the rest of Execute.
ActorCall(o) ==
    /\ stk # <<>>
    /\ TopNode.kind = "actor"
    /\ o.n <= TopNode.maxn
    /\ (o.set # "none") => TopNode.sets
    /\ LET a == TopNode
           f == Top
           no == ncall + 1
           outs == Append(f.outs, [ok |-> o.ok, n |-> o.n, no |-> no])
           ms == fnMessages(no, o.n)
           after == actorFinish(chat, a, o.ok, ms)
           sleeps == IF sleepsAfter(o.ok, f.k, retryLimitOf(a))
                     THEN Append(f.sleeps, backoff(f.k))
                     ELSE f.sleeps
       IN  /\ ncall' = no
           /\ seen' = [seen EXCEPT ![f.path] = f.snap]
           /\ IF o.set = "none"
              THEN UNCHANGED <<stores, shadow>>
              ELSE /\ stores' = [stores EXCEPT ![chatStore] = Set(@, flagVar, Dyn("bool", o.set = "true"))]
                   /\ shadow' = [shadow EXCEPT ![chatStore] = Set(@, flagVar, Dyn("bool", o.set = "true"))]
           /\ IF loopEnds(o.ok, f.k, retryLimitOf(a))
              THEN /\ chat' = after
                   /\ Return(IF o.ok THEN NilRes ELSE ErrRes(no))
                   /\ wlog' = IF o.ok
                              THEN wlog \o [j \in 1..o.n |-> [path |-> f.path, msg |-> Stamp(a, ms[j])]]
                              ELSE wlog
                   /\ ev' = [path |-> f.path, outs |-> outs, before |-> f.before, wl |-> f.wl,
                             res |-> IF o.ok THEN NilRes ELSE ErrRes(no),
                             sleeps |-> sleeps, events |-> actorEvents(a, o.ok, ms)]
              ELSE /\ stk' = Append(Pop, [f EXCEPT !.k = @ + 1, !.outs = outs, !.sleeps = sleeps])
                   /\ ev' = NoEv
                   /\ UNCHANGED <<chat, res, rs, wlog>>
    /\ lw' = NoWrite
    /\ UNCHANGED <<parVars, auxVars, nextID, handles, lastGet, prog, cnt, conds, endVals>>

\* chain.Execute: the error test after a child, the next child, return nil.
ChainStep ==
    /\ stk # <<>>
    /\ TopNode.kind = "chain"
    /\ IF chainStops(res)
       THEN /\ Return(res)
            /\ chat' = chainReturn(chat, Top.before, res)
            /\ UNCHANGED cnt
       ELSE IF Top.k < Len(TopNode.pipelines)
       THEN Enter([Top EXCEPT !.k = @ + 1], chainNext(TopNode, Top.k)) /\ UNCHANGED <<chat, rs>>
       ELSE /\ Return(NilRes)
            /\ chat' = chainReturn(chat, Top.before, NilRes)
            /\ UNCHANGED cnt
    /\ ev' = NoEv
    /\ lw' = NoWrite
    /\ UNCHANGED <<parVars, auxVars, storeVars, prog, ncall, conds, endVals, seen, wlog>>

\* while.Execute: the error test after the body, the condition, the body.
WhileStep ==
    /\ stk # <<>>
    /\ TopNode.kind = "while"
    /\ LET c == whileContinues(Top.k, RO(chatStore))
           back == Top.k > 0
       IN  /\ endVals' = IF back
                         THEN [endVals EXCEPT ![Top.path] = Append(@, condition(RO(chatStore)))]
                         ELSE endVals
           /\ IF back /\ whileStops(res)
              THEN Return(res) /\ UNCHANGED <<cnt, conds>>
              ELSE /\ conds' = [conds EXCEPT ![Top.path] = Append(@, condition(RO(chatStore)))]
                   /\ IF c
                      THEN /\ Top.k < MaxIter
                           /\ Enter([Top EXCEPT !.k = @ + 1], 1)
                           /\ UNCHANGED rs
                      ELSE Return(NilRes) /\ UNCHANGED cnt
    /\ ev' = NoEv
    /\ lw' = NoWrite
    /\ UNCHANGED <<chat, parVars, auxVars, storeVars, prog, ncall, seen, wlog>>

\* ifPipeline.Execute: the condition and the branch; the branch's result.
IfStep ==
    /\ stk # <<>>
    /\ TopNode.kind = "if"
    /\ IF Top.k = 0
       THEN LET c == condition(RO(chatStore))
            IN  /\ conds' = [conds EXCEPT ![Top.path] = Append(@, c)]
                /\ Enter([Top EXCEPT !.k = 1], ifBranch(c))
                /\ UNCHANGED rs
       ELSE Return(res) /\ UNCHANGED <<cnt, conds>>
    /\ ev' = NoEv
    /\ lw' = NoWrite
    /\ UNCHANGED <<chat, parVars, auxVars, storeVars, prog, ncall, endVals, seen, wlog>>

\* The retry limits Actor steps are built with.
RetryLimits == -1..MaxRetryLimit

\* The pipelines the caller builds.
Plain(id, t, r) == ActorPipeline(id, TRUE, t, r, FALSE, MaxMsgs)
Setter(id) == ActorPipeline(id, FALSE, FALSE, 1, TRUE, 0)
ChainLeaves == {UserPrompt(FALSE), Plain(1, FALSE, 2), ActorPipeline(2, FALSE, TRUE, 1, FALSE, 1)}
Programs ==
    {Chain(<<UserPrompt(FALSE), Plain(1, t, r)>>) : t \in BOOLEAN, r \in RetryLimits}
    \cup {Chain(<<x, y>>) : x, y \in ChainLeaves}
    \cup {Chain(<<x, y, z>>) : x, y, z \in ChainLeaves}
    \cup {While(ActorPipeline(1, FALSE, FALSE, 1, TRUE, 1)),
          While(Chain(<<Setter(1), Setter(2)>>)),
          If(Setter(1), UserPrompt(FALSE)),
          If(UserPrompt(TRUE), Chain(<<Setter(1), UserPrompt(FALSE)>>)),
          Chain(<<UserPrompt(FALSE), UserPrompt(TRUE)>>),
          Chain(<<Plain(1, FALSE, 1), Plain(1, FALSE, 1), UserPrompt(TRUE)>>)}

\* The caller has made the flag with FreshVar, may have Set it, has built a
\* pipeline and calls Execute on a new Chat.
InitSeq ==
    /\ ParInit
    /\ AuxInit
    /\ nextID = 1
    /\ handles = {flagVar}
    /\ \E st \in {NewStore} \cup {Set(NewStore, flagVar, Dyn("bool", b)) : b \in BOOLEAN} :
          /\ stores = [s \in StoreRefs |-> IF s = chatStore THEN st ELSE NewStore]
          /\ shadow = [s \in StoreRefs |-> IF s = chatStore THEN st ELSE NewStore]
    /\ lastGet = NoGet
    /\ prog \in Programs
    /\ stk = <<Frame(<<>>, NewChat, 0)>>
    /\ res = NoRes
    /\ ncall = 0
    /\ cnt = [p \in Paths(prog) |-> IF p = <<>> THEN 1 ELSE 0]
    /\ rs = [p \in Paths(prog) |-> NoRes]
    /\ conds = [p \in Paths(prog) |-> <<>>]
    /\ endVals = [p \in Paths(prog) |-> <<>>]
    /\ seen = [p \in Paths(prog) |-> <<>>]
    /\ wlog = <<>>
    /\ ev = NoEv

NextSeq ==
    \/ SeqStatic
    \/ \E o \in Outcomes : ActorCall(o)
    \/ ChainStep
    \/ WhileStep
    \/ IfStep

SpecSeq == InitSeq /\ [][NextSeq]_vars

----------------------------------------------------------------------------
(* Vocabulary of the properties *)

keepLen == maxHistoryLength \div 2

\* The Chats that exist: the top-level one (0) and, after split, the clones.
LiveChats == {0} \cup (IF splitters = <<>> THEN {} ELSE Branches)

ChatOf(c) == IF c = 0 THEN chat ELSE splitters[c]

\* The messages branch i's pipeline has written, in write order.
wrote(i) == [k \in 1..nw[i] |-> <<i, k>>]

RECURSIVE ConcatWrote(_)
ConcatWrote(n) == IF n = 0 THEN <<>> ELSE ConcatWrote(n - 1) \o wrote(n)

RECURSIVE SumWrote(_)
SumWrote(n) == IF n = 0 THEN 0 ELSE SumWrote(n - 1) + nw[n]

IsSuffix(s, t) == Len(s) <= Len(t) /\ s = Last(t, Len(s))

Started == splitters # <<>>
AllTerminated == Started /\ \A i \in Branches : bpc[i] \in {"done", "failed"}
Failed == {i \in Branches : bpc[i] = "failed"}
Returned == Started /\ pc = "idle" /\ ret # "none"
\* parallel.Execute has returned and nothing has run since.
JustReturned == Returned /\ lw = NoWrite
NoTrim == \A i \in Branches : ~trimmed[i]

\* The state is the one right after a write; the write dropped messages.
Wrote == lw # NoWrite
Truncated == Wrote /\ Len(ChatOf(lw.chat).history) < Len(lw.prev.history) + 1

----------------------------------------------------------------------------
(* Properties *)

\* C1: once every branch's Execute has terminated, Parallel.Execute returns
\* (it has returned, or its next step is enabled and it has not panicked):
\* nil when all branches succeeded, an error when at least one failed.
C1_ParallelReturns ==
    AllTerminated =>
        \/ Returned /\ (ret = "nil" <=> Failed = {})
        \/ pc \in {"wait", "merge"} /\ ENABLED (Join \/ MergeStep)

\* C2: when exactly one branch failed, Execute returns an error and the
\* parent's history is what it was before the Parallel step.
C2_FailureAtomicity ==
    (AllTerminated /\ Cardinality(Failed) = 1) =>
        \/ pc = "wait" /\ ENABLED Join /\ chat.history = pre
        \/ Returned /\ ret = "err" /\ (lw = NoWrite => chat.history = pre)

\* C3 as stated: when Execute returns nil and no branch trimmed, the parent's
\* history is its history before the step followed by the branches' messages
\* in ascending branch index.
C3_MergeOrderOriginal ==
    (JustReturned /\ ret = "nil" /\ NoTrim) =>
        chat.history = pre \o ConcatWrote(NBranches)

\* C3 amended: the same, provided the history before the step and the
\* branches' messages together do not exceed the ceiling (no write truncates).
C3_MergeOrder ==
    (JustReturned /\ ret = "nil" /\ NoTrim
        /\ Len(pre) + SumWrote(NBranches) <= maxHistoryLength) =>
        chat.history = pre \o ConcatWrote(NBranches)

C3_Witness ==
    /\ JustReturned /\ ret = "nil" /\ NoTrim
    /\ Len(pre) >= 1
    /\ \A i \in Branches : nw[i] >= 1
    /\ Len(pre) + SumWrote(NBranches) <= maxHistoryLength

\* C4: the history of a clone holds only the parent's history as of the
\* clone point and the branch's own writes (it is a suffix of the two in
\* sequence), and is exactly that when the branch neither trimmed nor
\* truncated, whatever the other branches wrote or trimmed.
C4_BranchIsolation ==
    Started =>
        \A i \in Branches :
            /\ IsSuffix(splitters[i].history, pre \o wrote(i))
            /\ (~trimmed[i] /\ Len(pre) + nw[i] <= maxHistoryLength)
                   => splitters[i].history = pre \o wrote(i)

C4_Witness ==
    /\ Started
    /\ \A i \in Branches : bpc[i] = "run"
    /\ \E i, j \in Branches :
          /\ i # j
          /\ nw[i] >= 1 /\ ~trimmed[i]
          /\ nw[j] >= 1 /\ trimmed[j]
          /\ Len(pre) >= 1

\* C5: no step taken while some branch is still executing changes the
\* parent Chat (neither its history nor its unique offset).
C5_JoinBeforeMerge ==
    [][(\E i \in Branches : bpc[i] = "run") => chat' = chat]_vars

C5_Witness ==
    /\ pc = "wait"
    /\ \E i, j \in Branches :
          /\ bpc[i] = "run"
          /\ bpc[j] = "done" /\ nw[j] >= 1
    /\ chat.history = pre

\* C6: in every Chat, 0 <= offsetUnique <= len(history).
C6_OffsetInRange ==
    \A c \in LiveChats :
        /\ 0 <= ChatOf(c).offsetUnique
        /\ ChatOf(c).offsetUnique <= Len(ChatOf(c).history)

\* A message of a clone's history that the branch itself wrote.
OwnRetained(i) == SelectSeq(splitters[i].history, LAMBDA m : m[1] = i)

\* C7: after a successful Parallel, the messages appended to the parent for
\* branch i are exactly the messages branch i wrote that its history still
\* retains, in write order; no message copied from the parent is among them.
C7_MergedAreOwn ==
    (JustReturned /\ ret = "nil") =>
        \A i \in Branches : merged[i] = OwnRetained(i)

\* C8: len(history) <= ceiling in every Chat after every write.
C8_HistoryBound ==
    \A c \in LiveChats : Len(ChatOf(c).history) <= maxHistoryLength

C8_Witness ==
    /\ Wrote
    /\ Len(lw.prev.history) = maxHistoryLength
    /\ \E c \in LiveChats : Len(ChatOf(c).history) = maxHistoryLength

\* C9 as stated: after a write that truncates, the history is the most
\* recent ceiling/2 messages written (the written message last).
C9_RetainedTailOriginal ==
    Truncated =>
        ChatOf(lw.chat).history = Last(Append(lw.prev.history, lw.msg), keepLen)

\* C9 amended: after a write that truncates, the history is the most recent
\* ceiling/2 + 1 messages written: the last ceiling/2 messages of the
\* history before the write, followed by the written message.
C9_RetainedTail ==
    Truncated =>
        /\ ChatOf(lw.chat).history = Last(Append(lw.prev.history, lw.msg), keepLen + 1)
        /\ Len(ChatOf(lw.chat).history) = keepLen + 1

C9_Witness == Truncated /\ lw.chat # 0

\* C10 as stated: write(m) appends m and truncates exactly when the length
\* resulting from the append is >= ceiling; below the ceiling the history is
\* the previous one followed by m and the unique offset is unchanged.
C10_TruncationTriggerOriginal ==
    Wrote =>
        LET h == ChatOf(lw.chat).history
            p == lw.prev.history
        IN  /\ h[Len(h)] = lw.msg
            /\ Truncated <=> (Len(p) + 1 >= maxHistoryLength)
            /\ (Len(p) + 1 < maxHistoryLength) =>
                   /\ h = Append(p, lw.msg)
                   /\ ChatOf(lw.chat).offsetUnique = lw.prev.offsetUnique

\* C10 amended: write(m) appends m and truncates exactly when the length
\* before the append is >= ceiling (the resulting length would exceed the
\* ceiling); otherwise the history is the previous one followed by m and the
\* unique offset is unchanged.
C10_TruncationTrigger ==
    Wrote =>
        LET h == ChatOf(lw.chat).history
            p == lw.prev.history
        IN  /\ h[Len(h)] = lw.msg
            /\ Truncated <=> (Len(p) >= maxHistoryLength)
            /\ (Len(p) < maxHistoryLength) =>
                   /\ h = Append(p, lw.msg)
                   /\ ChatOf(lw.chat).offsetUnique = lw.prev.offsetUnique

C10_Witness ==
    /\ Wrote
    /\ Len(lw.prev.history) + 1 = maxHistoryLength
    /\ ~Truncated

----------------------------------------------------------------------------
(* Properties of the sequential engine *)

Done == stk = <<>>
Max1(r) == IF r >= 1 THEN r ELSE 1
Msgs(l) == [j \in 1..Len(l) |-> l[j].msg]

\* An Actor step has just returned: its node, its calls, what it wrote.
EvNode == NodeAt(prog, ev.path)
EvAllFailed == \A j \in 1..Len(ev.outs) : ~ev.outs[j].ok
EvLast == ev.outs[Len(ev.outs)]
EvWritten == Msgs(SubSeq(wlog, ev.wl + 1, Len(wlog)))
\* The messages call o returned, carrying the Actor's identity.
StampedOf(a, o) == [j \in 1..o.n |-> <<a.id, <<o.no, j>>>>]

\* C11: an Actor step whose function fails on every call has called it
\* exactly max(1, retryLimit) times and returns the last call's error.
C11_RetryExhaustion ==
    (ev # NoEv /\ EvAllFailed) =>
        /\ Len(ev.outs) = Max1(EvNode.retryLimit)
        /\ ev.res = ErrRes(EvLast.no)
        /\ res = ev.res

C11_Witness ==
    /\ ev # NoEv /\ EvAllFailed
    /\ EvNode.retryLimit = 3
    /\ Len(ev.outs) = 3

\* C12: when some call of the function succeeds, the first success is the
\* last call (k calls were made), Execute returns nil, and the messages
\* written are the messages of that call, stamped, and no others.
C12_RetryStopsAtSuccess ==
    (ev # NoEv /\ ~EvAllFailed) =>
        LET k == CHOOSE j \in 1..Len(ev.outs) :
                    ev.outs[j].ok /\ \A i \in 1..(j - 1) : ~ev.outs[i].ok
        IN  /\ Len(ev.outs) = k
            /\ k <= Max1(EvNode.retryLimit)
            /\ ev.res = NilRes /\ res = NilRes
            /\ EvWritten = StampedOf(EvNode, ev.outs[k])
            /\ (~EvNode.trim /\ Len(ev.before.history) + ev.outs[k].n <= maxHistoryLength)
                   => chat.history = ev.before.history \o StampedOf(EvNode, ev.outs[k])

C12_Witness ==
    /\ ev # NoEv
    /\ Len(ev.outs) = 2
    /\ ~ev.outs[1].ok /\ ev.outs[1].n >= 1
    /\ ev.outs[2].ok /\ ev.outs[2].n >= 1

\* C13: when every attempt of an Actor step failed, the Chat's history and
\* unique offset are as before the step, also when the step is flagged trim.
C13_FailedStepNoEffect ==
    (ev # NoEv /\ IsErr(ev.res)) =>
        /\ chat = ev.before
        /\ EvWritten = <<>>

C13_Witness ==
    /\ ev # NoEv /\ IsErr(ev.res)
    /\ EvNode.trim
    /\ ev.before.history # <<>>
    /\ \E j \in 1..Len(ev.outs) : ev.outs[j].n >= 1

\* C14: after a successful Actor step flagged trim that returned fewer than
\* ceiling messages, the history is exactly the returned messages, in order.
C14_TrimActor ==
    (ev # NoEv /\ ev.res = NilRes /\ EvNode.trim /\ EvLast.n < maxHistoryLength) =>
        chat.history = StampedOf(EvNode, EvLast)

C14_Witness ==
    /\ ev # NoEv /\ ev.res = NilRes /\ EvNode.trim
    /\ EvLast.n >= 1
    /\ ev.before.history # <<>>

\* The messages child k of the root wrote, in write order.
ChildMsgs(k) == Msgs(SelectSeq(wlog, LAMBDA e : e.path # <<>> /\ Head(e.path) = k))

RECURSIVE ConcatChildren(_)
ConcatChildren(k) == IF k = 0 THEN <<>> ELSE ConcatChildren(k - 1) \o ChildMsgs(k)

\* A Chain of two children, executed to the end, neither failing nor trimming.
ChainOfTwoDone ==
    /\ Done /\ prog.kind = "chain" /\ Len(prog.pipelines) = 2
    /\ res = NilRes /\ ~pipelineTrims(prog)

Elems(l) == {l[j] : j \in 1..Len(l)}

\* The last history read of every Actor child of the root holds every
\* message the children before it wrote.
SeenContainsEarlier ==
    \A k \in 1..Len(prog.pipelines) :
        (prog.pipelines[k].kind = "actor" /\ cnt[<<k>>] > 0)
            => Elems(ConcatChildren(k - 1)) \subseteq Elems(seen[<<k>>])

\* The last history read of every Actor child of the root is the messages
\* of the children before it, in order.
SeenEarlier ==
    \A k \in 1..Len(prog.pipelines) :
        (prog.pipelines[k].kind = "actor" /\ cnt[<<k>>] > 0)
            => seen[<<k>>] = ConcatChildren(k - 1)

\* C15 as stated: Chain(A, B) on an empty Chat, neither child failing nor
\* trimming, leaves A's messages followed by B's; and in every Chain each
\* child's history read holds every message the earlier children wrote.
C15_ChainOrderOriginal ==
    /\ ChainOfTwoDone => chat.history = ConcatChildren(2)
    /\ (Done /\ prog.kind = "chain") => SeenContainsEarlier

\* C15 amended: in a Chain without trimming children whose messages together
\* do not exceed the ceiling, each child's history read is the messages of
\* the earlier children in order, and when no child failed the history is
\* the children's messages in child order.
C15_ChainOrder ==
    (/\ Done /\ prog.kind = "chain" /\ ~pipelineTrims(prog)
     /\ Len(wlog) <= maxHistoryLength) =>
        /\ SeenEarlier
        /\ res = NilRes => chat.history = ConcatChildren(Len(prog.pipelines))

C15_Witness ==
    /\ ChainOfTwoDone
    /\ \A k \in 1..2 : prog.pipelines[k].kind = "actor" /\ ChildMsgs(k) # <<>>
    /\ Len(wlog) <= maxHistoryLength

\* C16: when child k of a Chain returned an error, the Chain returns that
\* error and no later child was executed, called or wrote anything.
C16_ChainError ==
    (Done /\ prog.kind = "chain") =>
        \A k \in 1..Len(prog.pipelines) :
            IsErr(rs[<<k>>]) =>
                /\ res = rs[<<k>>]
                /\ \A j \in (k + 1)..Len(prog.pipelines) :
                      cnt[<<j>>] = 0 /\ ChildMsgs(j) = <<>> /\ rs[<<j>>] = NoRes

C16_Witness ==
    /\ Done /\ prog.kind = "chain" /\ Len(prog.pipelines) = 3
    /\ rs[<<1>>] = NilRes
    /\ IsErr(rs[<<2>>])

\* C17: when While returns nil the condition was evaluated once before every
\* iteration and once more, never in between: it held before each of the n
\* iterations and not after the n-th, whatever it was during a body; with
\* the condition false at entry the body never ran and the Chat is untouched.
C17_WhileCount ==
    (Done /\ prog.kind = "while" /\ res = NilRes) =>
        LET n == cnt[<<1>>]
        IN  /\ conds[<<>>] = [j \in 1..(n + 1) |-> j <= n]
            /\ endVals[<<>>] = [j \in 1..n |-> j < n]
            /\ (n = 0 => (chat = NewChat /\ wlog = <<>>))

C17_Witness ==
    /\ Done /\ prog.kind = "while" /\ res = NilRes
    /\ cnt[<<1>>] = 3

\* C18: when the body returned an error, While returns that error and the
\* condition was not evaluated again nor the body run again.
C18_WhileError ==
    (Done /\ prog.kind = "while" /\ IsErr(rs[<<1>>])) =>
        /\ res = rs[<<1>>]
        /\ Len(conds[<<>>]) = cnt[<<1>>]
        /\ \A j \in 1..Len(conds[<<>>]) : conds[<<>>][j]

C18_Witness ==
    /\ Done /\ prog.kind = "while" /\ IsErr(rs[<<1>>])
    /\ condition(RO(chatStore))
    /\ cnt[<<1>>] >= 2

\* C19: If evaluates its condition once and executes exactly one branch,
\* the left one when the condition held and the right one otherwise, and
\* returns that branch's result; the other branch is never executed.
C19_IfOnce ==
    (Done /\ prog.kind = "if") =>
        /\ Len(conds[<<>>]) = 1
        /\ LET b == IF conds[<<>>][1] THEN 1 ELSE 2
           IN  /\ cnt[<<b>>] = 1
               /\ res = rs[<<b>>]
               /\ cnt[<<3 - b>>] = 0
               /\ rs[<<3 - b>>] = NoRes
               /\ ChildMsgs(3 - b) = <<>>

C19_Witness ==
    /\ Done /\ prog.kind = "if"
    /\ conds[<<>>][1] # condition(RO(chatStore))

\* C20: a Get returns (x, true) when x is the value last Set on that handle
\* in that Store, and (zero value, false) when the handle was never Set in
\* that Store; it does not depend on Sets on other handles or other Stores.
C20_StoreRoundTrip ==
    lastGet # NoGet =>
        LET sh == shadow[lastGet.store]
            v == lastGet.var
        IN  /\ ~lastGet.res.panic
            /\ v.id \in DOMAIN sh =>
                   (lastGet.res.found /\ lastGet.res.val = sh[v.id])
            /\ v.id \notin DOMAIN sh =>
                   (~lastGet.res.found /\ lastGet.res.val = Zero(v.type))

\* No two handles FreshVar returned share an id.
HandlesUnique == \A v, w \in handles : v.id = w.id => v = w

\* C21: no two FreshVar calls return the same id, so every value under an id
\* was stored through a handle of one type and no Get reaches the panic of
\* the type assertion.
C21_HandleTypeSafety ==
    /\ HandlesUnique
    /\ \A s \in StoreRefs : \A id \in DOMAIN stores[s] :
          \E v \in handles : v.id = id /\ stores[s][id] \in ValuesOf(v.type)
    /\ lastGet # NoGet => ~lastGet.res.panic

\* What Get returns on a map whose entry for v holds val.
GetOf(val, v) == Get((v.id :> val), v)

\* C22: every clone refers to the Store of the parent Chat: a Get by any
\* branch during the step, or by the parent after it, reads the entry the
\* last Set wrote, whichever branch made that Set.
C22_SharedStore ==
    /\ \A i \in DOMAIN storeImpl : storeImpl[i] = chatStore
    /\ (lastGet # NoGet /\ lastSet # NoSet) => lastGet.res = GetOf(lastSet.val, sharedVar)

C22_Witness ==
    /\ pc = "wait"
    /\ lastGet # NoGet /\ lastSet # NoSet
    /\ lastGet.by >= 1 /\ lastSet.by >= 1 /\ lastGet.by # lastSet.by
    /\ lastGet.res.found

\* C23: every Get of the shared handle returns not-found or a value some
\* Set wrote, and after all branches finished it returns the value of the
\* last Set.
C23_AtomicSet ==
    lastGet # NoGet =>
        /\ ~lastGet.res.panic
        /\ lastGet.res.found => (lastSet # NoSet /\ lastGet.res.val \in lastSet.all)
        /\ (lastGet.by = 0 /\ lastSet # NoSet) =>
               (lastGet.res.found /\ lastGet.res.val = lastSet.val)

\* C24: after trim() the history is empty and the unique offset is zero,
\* whatever the Chat was; a further trim() changes nothing; the Store is as
\* it was before.
C24_Trim ==
    lastOp.op = "trim" =>
        /\ chat.history = <<>>
        /\ chat.offsetUnique = 0
        /\ trim(chat) = chat
        /\ stores = lastOp.stores

C24_Witness ==
    /\ lastOp.op = "trim"
    /\ Len(lastOp.prev.history) >= 2
    /\ lastOp.prev.offsetUnique >= 1
    /\ stores[chatStore] # NewStore

\* C25: a static step returns nil and leaves its fixed message, with the
\* user identity, as the last message: appended to the history before the
\* step (to its retained tail when the write truncates), and alone in the
\* history when the step is flagged trim.
C25_StaticStep ==
    [][(stk # <<>> /\ TopNode.kind = "static") =>
          LET m == <<0, Top.path>>
              h == chat'.history
          IN  /\ res' = NilRes
              /\ Len(stk') = Len(stk) - 1
              /\ h # <<>> /\ h[Len(h)] = m
              /\ TopNode.trim => h = <<m>>
              /\ ~TopNode.trim => IsSuffix(SubSeq(h, 1, Len(h) - 1), chat.history)
              /\ (~TopNode.trim /\ Len(chat.history) < maxHistoryLength)
                    => h = Append(chat.history, m)]_vars

C25_Witness ==
    /\ lw # NoWrite
    /\ NodeAt(prog, wlog[Len(wlog)].path) = UserPrompt(TRUE)
    /\ Len(wlog) >= 3
    /\ chat.history = <<wlog[Len(wlog)].msg>>

\* parallel.Execute has just passed the error test and the trim test, and
\* the parent held messages before the step.
AfterJoin == pc = "merge" /\ mi = 1 /\ mk = 0 /\ pre # <<>>

IsPrefix(s, t) == Len(s) <= Len(t) /\ s = SubSeq(t, 1, Len(s))

\* C26 as stated: on a successful Parallel step the parent is trimmed before
\* the merge exactly when every branch performed a trim in this execution;
\* when some branch performed none, the parent's earlier messages stay ahead
\* of the merged ones.
C26_ParallelTrimRuleOriginal ==
    /\ AfterJoin => ((chat.history = <<>>) <=> (\A i \in Branches : trimmed[i]))
    /\ (Returned /\ ret = "nil" /\ (\E i \in Branches : ~trimmed[i])
          /\ Len(pre) + Len(wlog) <= maxHistoryLength)
          => IsPrefix(pre, chat.history)

\* C26 amended: the parent is trimmed before the merge exactly when every
\* branch pipeline trims() (its flag for a leaf, some child for a Chain, the
\* body for a While, both branches for an If), whether or not a trim was
\* performed; otherwise the merge starts from the parent's earlier history.
C26_ParallelTrimRule ==
    (pc = "merge" /\ mi = 1 /\ mk = 0) =>
        chat = IF \A i \in Branches : pipelineTrims(prog.pipelines[i])
               THEN [history |-> <<>>, offsetUnique |-> 0]
               ELSE [history |-> pre, offsetUnique |-> 0]

C26_Witness ==
    /\ AfterJoin
    /\ \A i \in Branches : pipelineTrims(prog.pipelines[i])
    /\ \E i \in Branches : ~trimmed[i]
    /\ chat.history = <<>>

\* C27: when two or more branches failed, Execute returns the error of the
\* failing branch with the lowest index, whatever the order of completion.
C27_LowestIndexError ==
    (AllTerminated /\ Cardinality(Failed) >= 2) =>
        /\ ENABLED Join
        /\ errors[1] = CHOOSE i \in Failed : \A j \in Failed : i <= j

\* The messages the steps of branch i wrote to its clone.
BranchWrote(i) == {wlog[j].msg : j \in {k \in 1..Len(wlog) : Head(wlog[k].path) = i}}

\* C28: every message an Actor step wrote carries the identity of that
\* Actor, and the messages the merge writes to the parent are messages of
\* the clones as they were written, stamp included.
C28_ActorStamp ==
    /\ \A j \in 1..Len(wlog) :
          LET node == NodeAt(prog.pipelines[Head(wlog[j].path)], Tail(wlog[j].path))
          IN  /\ node.kind = "actor" => wlog[j].msg[1] = node.id
              /\ node.kind = "static" => wlog[j].msg[1] = 0
    /\ \A i \in Branches : \A k \in 1..Len(merged[i]) :
          merged[i][k] \in BranchWrote(i) \cup {pre[j] : j \in 1..Len(pre)}
    /\ \A k \in 1..Len(chat.history) :
          chat.history[k] \in {pre[j] : j \in 1..Len(pre)}
                              \cup UNION {BranchWrote(i) : i \in Branches}
                              \cup (IF Started THEN {} ELSE {chat.history[k]})

C28_Witness ==
    /\ Returned /\ ret = "nil"
    /\ \E k \in 1..Len(chat.history) :
          /\ chat.history[k][1] >= 1
          /\ \E i \in Branches : chat.history[k] \in BranchWrote(i)
    /\ \E i \in Branches : prog.pipelines[i].kind = "chain"

\* C29: the identities of the Actors constructed increase with the order of
\* construction, so no two are equal, and none is the user identity 0.
C29_ActorIDs ==
    /\ \A i, j \in 1..Len(actors) : i < j => actors[i].actorID < actors[j].actorID
    /\ \A i \in 1..Len(actors) : actors[i].actorID # userActorID
    /\ \A i \in 1..Len(actors) : actors[i].actorID <= lastActorID

C29_Witness ==
    /\ Len(actors) = MaxActors
    /\ \E i, j \in 1..Len(actors) : actors[i].unsafe /\ ~actors[j].unsafe

\* A GetRO or the evaluation of a condition is taking place.
Reading == lastGetRO' # lastGetRO

\* C30: a GetRO on a view, and the evaluation of a condition through one,
\* returns what Get on the Store behind the view returns at that moment
\* (the values last Set, also after the view was made) and leaves every
\* Store as it is.
C30_ReadOnlyView ==
    /\ [](lastGetRO # NoGet => lastGetRO.res = lastGetRO.direct)
    /\ [][Reading => stores' = stores]_vars

C30_Witness ==
    /\ lastOp.op = "ro"
    /\ lastGetRO # NoGet
    /\ lastGetRO.view = view
    /\ view.r # chatStore
    /\ lastGetRO.res.found
    /\ lastGetRO.res = Get(stores[view.r], lastGetRO.var)
    /\ lastGetRO.res # Get(lastOp.made, lastGetRO.var)

----------------------------------------------------------------------------
RECURSIVE SumSeq(_)
SumSeq(q) == IF q = <<>> THEN 0 ELSE Head(q) + SumSeq(Tail(q))

\* C31: in an Actor step with limit L = max(1, retryLimit) the step sleeps
\* 2^(i-1) seconds after its i-th failed attempt for i = 1..L-1, and sleeps
\* neither after the L-th failed attempt nor after a successful one; a step
\* that exhausts its retries has slept 2^(L-1) - 1 seconds in all.
C31_Backoff ==
    /\ (stk # <<>> /\ TopNode.kind = "actor") =>
            /\ Len(Top.sleeps) = Len(Top.outs)
            /\ \A i \in 1..Len(Top.sleeps) : Top.sleeps[i] = 2 ^ (i - 1)
    /\ ev # NoEv =>
            /\ Len(ev.sleeps) = Len(ev.outs) - 1
            /\ \A i \in 1..Len(ev.sleeps) : ev.sleeps[i] = 2 ^ (i - 1)
            /\ EvAllFailed =>
                    /\ Len(ev.sleeps) = Max1(EvNode.retryLimit) - 1
                    /\ SumSeq(ev.sleeps) = 2 ^ (Max1(EvNode.retryLimit) - 1) - 1

\* An Actor step with limit 3 has failed three times, sleeping 1 s and 2 s.
C31_Witness ==
    ev # NoEv /\ EvAllFailed /\ Max1(EvNode.retryLimit) = 3 /\ ev.sleeps = <<1, 2>>

\* The index in es of the j-th event of kind op.
NthEvent(es, op, j) ==
    CHOOSE k \in 1..Len(es) :
        es[k].op = op /\ Cardinality({l \in 1..k : es[l].op = op}) = j

EventMsgs(es, op) == Msgs(SelectSeq(es, LAMBDA e : e.op = op))

\* The Chat after the events es, from c.
RECURSIVE Replay(_, _)
Replay(c, es) ==
    IF es = <<>> THEN c
    ELSE Replay(CASE Head(es).op = "trim" -> trim(c)
                  [] Head(es).op = "write" -> write(c, Head(es).msg)
                  [] OTHER -> c,
                Tail(es))

\* C32: on a successful Actor step with a non-nil echo the callback is
\* invoked exactly once per produced message, in the order produced, each
\* invocation before that message is appended to the Chat and after any
\* trim of the step; on a failed step the callback is never invoked.
C32_Echo ==
    ev # NoEv =>
        LET es == ev.events
            ms == fnMessages(EvLast.no, EvLast.n)
        IN  /\ Replay(ev.before, es) = chat
            /\ (IsErr(ev.res) \/ ~EvNode.echo) => EventMsgs(es, "echo") = <<>>
            /\ (~IsErr(ev.res) /\ EvNode.echo) =>
                    /\ EventMsgs(es, "echo") = ms
                    /\ EventMsgs(es, "write") = StampedOf(EvNode, EvLast)
                    /\ \A j \in 1..Len(ms) :
                            NthEvent(es, "echo", j) < NthEvent(es, "write", j)
                    /\ \A k, l \in 1..Len(es) :
                            (es[k].op = "trim" /\ es[l].op = "echo") => k < l
                    /\ EvNode.trim => EventMsgs(es, "trim") = <<<<>>>>

\* A trimming Actor step with an echo has succeeded with two messages on a
\* Chat that held some.
C32_Witness ==
    /\ ev # NoEv /\ ~IsErr(ev.res) /\ EvNode.echo /\ EvNode.trim
    /\ EvLast.n >= 2 /\ ev.before.history # <<>>

\* The nodes of the program.
Nodes == {NodeAt(prog, p) : p \in Paths(prog)}

\* C34: Chain.trims() is true iff at least one child trims, Parallel.trims()
\* iff every child trims, If.trims() iff both branches trim, While.trims()
\* is its body's trims(), a leaf's trims() is its trim flag; and a step of
\* Chain.Execute itself leaves the Chat and the Store as they are, whatever
\* Chain.trims() is.
C34_TrimsComposition ==
    /\ [](\A n \in Nodes :
            /\ n.kind \in {"static", "actor"} => (pipelineTrims(n) <=> n.trim)
            /\ n.kind = "chain" =>
                  (pipelineTrims(n) <=>
                      \E k \in 1..Len(n.pipelines) : pipelineTrims(n.pipelines[k]))
            /\ n.kind = "while" => (pipelineTrims(n) <=> pipelineTrims(n.pipeline))
            /\ n.kind = "if" =>
                  (pipelineTrims(n) <=> (pipelineTrims(n.left) /\ pipelineTrims(n.right)))
            /\ \A m \in Nodes :
                  parallelTrims(Parallel(<<n, m>>)) <=> (pipelineTrims(n) /\ pipelineTrims(m)))
    /\ [][(stk # <<>> /\ TopNode.kind = "chain") => (chat' = chat /\ stores' = stores)]_vars

\* A Chain whose trims() is true, not every child trimming, is executing on a
\* Chat that holds messages.
C34_Witness ==
    /\ stk # <<>> /\ TopNode.kind = "chain" /\ Top.k >= 1
    /\ pipelineTrims(TopNode)
    /\ \E k \in 1..Len(TopNode.pipelines) : ~pipelineTrims(TopNode.pipelines[k])
    /\ chat.history # <<>>

\* The Chat after the leaf children 1..k of the Chain, from their writes.
RECURSIVE ChatAfterChildren(_)
ChatAfterChildren(k) ==
    IF k = 0 THEN NewChat
    ELSE LET c == ChatAfterChildren(k - 1)
         IN  WriteAll(IF pipelineTrims(prog.pipelines[k]) THEN trim(c) ELSE c, ChildMsgs(k))

\* C37: when child k of a Chain fails, the messages written and the trims
\* performed by the children before it remain in the Chat after
\* Chain.Execute returned the error: the Chat is as those children left it.
C37_ChainNotAtomic ==
    (Done /\ prog.kind = "chain" /\ IsErr(res)) =>
        \A k \in 1..Len(prog.pipelines) :
            IsErr(rs[<<k>>]) => chat = ChatAfterChildren(k - 1)

\* The first child wrote, the second trimmed and wrote, the third failed.
C37_Witness ==
    /\ Done /\ prog.kind = "chain" /\ Len(prog.pipelines) = 3
    /\ ChildMsgs(1) # <<>>
    /\ prog.pipelines[2].trim /\ rs[<<2>>] = NilRes /\ ChildMsgs(2) # <<>>
    /\ IsErr(rs[<<3>>])
    /\ chat.history = ChildMsgs(2)

\* The messages the steps of branch i wrote, in (inner index, time) order.
WroteSeq(i) == Msgs(SelectSeq(wlog, LAMBDA e : Head(e.path) = i))

\* The branches that are Parallel steps with pipelines.
Nested == {i \in Branches : prog.pipelines[i].kind = "parallel" /\ prog.pipelines[i].pipelines # <<>>}

RECURSIVE NestedWrote(_)
NestedWrote(i) ==
    IF i = 0 THEN <<>>
    ELSE NestedWrote(i - 1) \o (IF i \in Nested THEN WroteSeq(i) ELSE <<>>)

\* parallel.Execute with pipelines has returned nil.
ReturnedNil == Returned /\ ret = "nil" /\ prog.pipelines # <<>>

NestedOnce ==
    /\ \A i \in Nested :
          ~pipelineTrims(prog.pipelines[i]) =>
              /\ ~uniquePanics(splitters[i])
              /\ uniqueMessages(splitters[i]) = WroteSeq(i)
    /\ SelectSeq(chat.history, LAMBDA m : \E i \in Nested : m \in BranchWrote(i))
          = NestedWrote(NBranches)

\* C35 as stated: when a Parallel step runs inside a branch of an outer
\* Parallel and neither trims, after the outer step succeeded the messages
\* the inner step merged into the clone are the clone's unique messages, and
\* each message an inner branch wrote is in the outer parent's history
\* exactly once, in (outer index, inner index) order.
C35_NestedParallelOriginal ==
    (ReturnedNil /\ ~parallelTrims(prog)) => NestedOnce

\* C35: the same, when the parent's history before the step and the
\* messages written in the step together do not exceed the ceiling.
C35_NestedParallel ==
    (ReturnedNil /\ ~parallelTrims(prog) /\ Len(pre) + Len(wlog) <= maxHistoryLength)
        => NestedOnce

\* The first branch is a Parallel whose two branches wrote, the parent held
\* a message, and the outer step has returned nil within the ceiling.
C35_Witness ==
    /\ ReturnedNil /\ 1 \in Nested /\ ~parallelTrims(prog)
    /\ Len(WroteSeq(1)) = 2 /\ pre # <<>>
    /\ Len(pre) + Len(wlog) <= maxHistoryLength

\* Branch i's part of the merge when it trimmed its clone: the clone's whole
\* history, counted from offset zero, which is the end of what it wrote and
\* holds none of the parent's messages.
TrimmedPart(i) ==
    /\ splitters[i].offsetUnique = 0
    /\ merged[i] = splitters[i].history
    /\ IsSuffix(merged[i], WroteSeq(i))
    /\ \A j \in 1..Len(merged[i]) : \A k \in 1..Len(pre) : merged[i][j] # pre[k]

\* C36 as stated: in a successful Parallel step where branch i trimmed its
\* clone and some other branch did not trim, the parent's earlier history is
\* kept in full and branch i contributes exactly the messages it wrote after
\* its last trim, none of them copied from the parent.
C36_PartialTrimOriginal ==
    ReturnedNil =>
        \A i \in Branches :
            (trimmed[i] /\ \E j \in Branches \ {i} : ~trimmed[j]) =>
                IsPrefix(pre, chat.history) /\ TrimmedPart(i)

\* C36: the same, when the branch that does not trim is one whose trims() is
\* false, and the parent's history before the step and the messages written
\* in the step together do not exceed the ceiling.
C36_PartialTrim ==
    (ReturnedNil /\ Len(pre) + Len(wlog) <= maxHistoryLength) =>
        \A i \in Branches :
            (trimmed[i] /\ \E j \in Branches \ {i} : ~pipelineTrims(prog.pipelines[j])) =>
                IsPrefix(pre, chat.history) /\ TrimmedPart(i)

\* The first branch wrote, trimmed and wrote again; the second does not
\* trim; the parent held messages.
C36_Witness ==
    /\ ReturnedNil /\ pre # <<>>
    /\ trimmed[1] /\ Len(WroteSeq(1)) = 2 /\ Len(merged[1]) = 1
    /\ ~pipelineTrims(prog.pipelines[2]) /\ merged[2] # <<>>
    /\ Len(pre) + Len(wlog) <= maxHistoryLength

\* C39: Parallel with zero children returns nil without touching the Chat,
\* inside a branch too; and a successful Parallel whose branches wrote no
\* message and do not all report trims() leaves the parent's history as it
\* was.
C39_EmptyIdleParallel ==
    /\ (prog.pipelines = <<>> /\ ret # "none") =>
            /\ ret = "nil"
            /\ chat = [history |-> pre, offsetUnique |-> 0]
            /\ splitters = <<>>
    /\ \A i \in Branches :
            (Started /\ prog.pipelines[i] = Parallel(<<>>) /\ bpc[i] # "run") =>
                /\ bpc[i] = "done"
                /\ splitters[i] = [history |-> pre, offsetUnique |-> Len(pre)]
    /\ (ReturnedNil /\ wlog = <<>> /\ ~parallelTrims(prog)) =>
            chat = [history |-> pre, offsetUnique |-> 0]

\* A Parallel of an empty Parallel and a While that trims() but whose
\* condition is false has returned nil to a parent that held messages.
C39_Witness ==
    /\ ReturnedNil /\ pre # <<>> /\ wlog = <<>>
    /\ prog.pipelines[1] = Parallel(<<>>)
    /\ pipelineTrims(prog.pipelines[2])

\* C38: the value a branch Set in the shared Store stays there when that
\* branch fails; the Parallel step then ends, returning the error to the
\* caller, which finds the value in the Store and none of the step's
\* messages in the history.
C38_StoreNotRolledBack ==
    (AllTerminated /\ lastSet # NoSet /\ lastSet.by \in Failed) =>
        /\ Get(stores[chatStore], sharedVar) = GetOf(lastSet.val, sharedVar)
        /\ chat.history = pre
        /\ pc = "wait" => ENABLED Join

\* C33: what a view returned by History() holds, its length and its
\* elements, is what the history held when the view was made, whatever has
\* been written to the Chat, truncated at the ceiling or trimmed since; so
\* every attempt that reads the view reads the history of the first attempt.
C33_SnapshotView ==
    /\ SliceOf(heap, hist) = chat.history
    /\ hview # NoHView => SliceOf(heap, hview.slice) = hview.snap
    /\ (lastOp.op = "read" /\ hview # NoHView) => lastOp.got = hview.snap

\* A view of a history with messages is read after a write into the array
\* the view shares, a write that truncated at the ceiling, and a trim.
C33_Witness ==
    /\ hview # NoHView /\ lastOp.op = "read"
    /\ hview.snap # <<>>
    /\ hview.since = {"write", "shared", "truncate", "trim"}

====
